---- MODULE Spec2Model ----
(***************************************************************************)
(* A model of the DQN training system of src/dqn_training.py and of the    *)
(* bridged environment of src/game_bridge.py.                              *)
(*                                                                         *)
(* Numbers.  The program computes with floats; the model computes with     *)
(* integers in fixed point.  Epsilon and the random draw it is compared    *)
(* with are in millionths (EpsScale), rewards in thousandths, distances    *)
(* in hundredths.                                                          *)
(*                                                                         *)
(* Network parameters.  A network's parameters are an abstract value, a    *)
(* natural number.  A subclassed keras Model creates its variables at its  *)
(* first forward pass, from glorot_uniform, separately for each network:   *)
(* the field q_network / target_network holds the value the network has    *)
(* or will get at that pass, and q_built / t_built say whether the         *)
(* variables exist yet.  An optimizer step gives the online network a      *)
(* value it never had before, numbered by the optimizer's iteration count. *)
(***************************************************************************)
EXTENDS Integers, Sequences, FiniteSets, TLC

\* ------------------------------------------------------------ bounds
\* Scaled-down sizes of the program's large constants, and caps on counters.
capacity == 3            \* ReplayBuffer(capacity=100000)
batch_size == 2          \* DQNAgent(batch_size=64)
target_update_freq == 3  \* DQNAgent(target_update_freq=1000)
MaxSteps == 7            \* cap on step_count in SpecAgent
MaxDeepSteps == 605      \* cap on step_count in SpecEps
MaxPushes == 4           \* cap on the pushes to one buffer in SpecAgent and SpecEps
max_episode_steps == 4   \* GameEnvironment(max_episode_steps=3000)
MaxEnvSteps == 3         \* cap on current_step in SpecEnv
MaxSaveSteps == 3        \* cap on the optimizer steps in SpecSave and SpecOps
MaxTicks == 2            \* run_episode: while ... step < 1000
WarmUpFill == 2          \* run_episode: if len(memory) > 1000
max_cps == 2             \* GameStateProcessor(max_critical_points=50)
grid_size == 2           \* GameStateProcessor(grid_size=15)
num_episodes == 2        \* train(num_episodes=1000)
eval_interval == 1       \* train(eval_interval=50)
eval_episodes == 1       \* evaluate(num_episodes=5)

\* ------------------------------------------------------------ constants
num_agents == 2
action_dim == 5
EpsScale == 10 ^ 6
epsilon_start == 1 * EpsScale
epsilon_end == (5 * EpsScale) \div 100
AgentIds == 0 .. (num_agents - 1)
ActionIds == 0 .. (action_dim - 1)
InitWeights == {0, 1}
StateIds == {0, 1}

Max(x, y) == IF x >= y THEN x ELSE y
Min(x, y) == IF x <= y THEN x ELSE y

VARIABLES
    agents,     \* agent id -> the DQNAgent's fields
    ret,        \* what the last call returned
    last_op,    \* the last call: <<name, agent id>>
    pushed,     \* history, kept while one agent is driven alone: agent id -> every
                \* transition pushed to its buffer, in order
    env,        \* the environment object's fields
    own_pos,    \* history: agent id -> its position at its own previous step of
                \* the episode, NoPosition after a reset
    own_prev,   \* history: agent id -> its owned-point count at its own previous
                \* step of the episode, 0 after a reset
    disk,       \* the files DQNAgent.save has written under its path, NoFile
                \* when there are none
    tm          \* the TrainingManager's metrics, and where train, evaluate and
                \* run_episode stand, with run_episode's local variables

vars == <<agents, ret, last_op, pushed, env, own_prev, own_pos, tm, disk>>
envVars == <<env, own_prev, own_pos>>
agentVars == <<agents, pushed>>

\* ------------------------------------------------------------ ReplayBuffer
\* collections.deque(maxlen=capacity).append: drops the leftmost when full.
pushNoEviction(buffer, t) == Append(buffer, t)

pushDropsNewest(buffer, t) ==
    IF Len(buffer) >= capacity
    THEN Append(SubSeq(buffer, 1, Len(buffer) - 1), t)
    ELSE Append(buffer, t)

push(buffer, t) ==
    IF Len(buffer) >= capacity
    THEN Append(Tail(buffer), t)
    ELSE Append(buffer, t)

DrawsWithRepeats(n, k) == [1 .. k -> 1 .. n]

\* The orders in which random.sample can draw k positions of a population of
\* n: k pairwise different positions.
Draws(n, k) ==
    {d \in [1 .. k -> 1 .. n] : \A i, j \in 1 .. k : (i # j) => (d[i] # d[j])}

\* random.sample raises ValueError when k exceeds the population (or is
\* negative); otherwise the batch is the transitions at the drawn positions,
\* in the drawn order.
SampleRaises(buffer, k) == k > Len(buffer)

Batch(buffer, d) == [i \in DOMAIN d |-> buffer[d[i]]]

\* ------------------------------------------------------------ DQNNetwork
\* The forward pass as a function of the parameters and the input: one value
\* per action.  The layers are not modelled; the stand-in is a fixed function
\* that tells different parameters apart and has ties.
QValues(w, s) == [act \in ActionIds |-> ((w + 1) * (s + act + 2)) % 4]

ArgMax(q) ==
    CHOOSE act \in ActionIds :
        /\ \A b \in ActionIds : q[b] <= q[act]
        /\ \A b \in ActionIds : (q[b] = q[act]) => act <= b

\* ------------------------------------------------------------ DQNAgent
\* set_weights(get_weights()): an unbuilt model has no variables, so
\* get_weights() is the empty list and set_weights([]) on an unbuilt model
\* assigns nothing.
update_target_network(a) ==
    IF a.q_built /\ a.t_built
    THEN [a EXCEPT !.target_network = a.q_network]
    ELSE a

DecayEpsilonNoFloor(e) == (e * 995) \div 1000

DecayEpsilon(e) == Max(epsilon_end, (e * 995) \div 1000)

NewAgent(wq, wt) ==
    update_target_network(
        [epsilon |-> epsilon_start,
         q_network |-> wq, target_network |-> wt,
         q_built |-> FALSE, t_built |-> FALSE,
         iterations |-> 0,
         memory |-> <<>>,
         step_count |-> 0,
         loss_history |-> <<>>])

store_experience(a, t) == [a EXCEPT !.memory = push(a.memory, t)]

\* select_action: rnd is random.random() in millionths, ract is the value
\* random.randint(0, action_dim - 1) gives when it is drawn.
ExploresInAnyMode(a, training, rnd) == rnd < a.epsilon

Explores(a, training, rnd) == training /\ rnd < a.epsilon

ActionOf(a, state, training, rnd, ract) ==
    IF Explores(a, training, rnd)
    THEN ract
    ELSE ArgMax(QValues(a.q_network, state))

\* The greedy branch runs the online network, which creates its variables.
AfterSelect(a, training, rnd) ==
    IF Explores(a, training, rnd)
    THEN a
    ELSE [a EXCEPT !.q_built = TRUE]

TrainIsNoOpWhenEmpty(a) == Len(a.memory) = 0

TrainIsNoOp(a) == Len(a.memory) < batch_size

SyncDueEveryStep(n) == TRUE

SyncDue(n) == n % target_update_freq = 0

TrainEffectiveKeepsNoLoss(a) ==
    LET it == a.iterations + 1
        a1 == [a EXCEPT !.q_built = TRUE, !.t_built = TRUE,
                        !.iterations = it,
                        !.q_network = 1 + it,
                        !.epsilon = DecayEpsilon(a.epsilon),
                        !.step_count = a.step_count + 1]
    IN  IF a1.step_count % target_update_freq = 0 THEN update_target_network(a1) ELSE a1

\* train_step past the early return.  The loss of an optimizer step is named
\* by the step's iteration number.
TrainEffective(a) ==
    LET it == a.iterations + 1
        a1 == [a EXCEPT !.q_built = TRUE, !.t_built = TRUE,
                        !.iterations = it,
                        !.q_network = 1 + it,
                        !.epsilon = DecayEpsilon(a.epsilon),
                        !.step_count = a.step_count + 1]
        a2 == IF SyncDue(a1.step_count) THEN update_target_network(a1) ELSE a1
    IN  [a2 EXCEPT !.loss_history = Append(a2.loss_history, it)]

train_step(a) == IF TrainIsNoOp(a) THEN a ELSE TrainEffective(a)

\* What a call returns: None, a value, a sampled batch, or a raised exception.
None == [kind |-> "None", val |-> 0]
Value(v) == [kind |-> "value", val |-> v]
Raised(e) == [kind |-> "raised", val |-> e]

TrainResult(a) == IF TrainIsNoOp(a) THEN None ELSE Value(a.iterations + 1)

\* ------------------------------------------------------------ save and load
\* json.dump writes the checkpoint dict as a text of "key": value members,
\* in the order of the dict; json.load reads the members back into a dict,
\* looked up by key.  Python writes a float so that reading it gives the same
\* float: a number is written and read as itself.
NoFile == <<>>

JsonDump(checkpoint) ==
    <<<<"epsilon", checkpoint.epsilon>>,
      <<"step_count", checkpoint.step_count>>,
      <<"loss_history", checkpoint.loss_history>>>>

JsonLoad(text) ==
    [key \in {text[k][1] : k \in DOMAIN text} |->
        LET k == CHOOSE k \in DOMAIN text : text[k][1] = key IN text[k][2]]

\* save_weights writes the variables the model has: none before it is built.
SaveWeights(built, w) == IF built THEN <<w>> ELSE <<>>

\* load_weights gives the model the variables of the file, at once or, for
\* a model not built yet, when it creates them.
LoadWeights(w, file) == IF file = <<>> THEN w ELSE file[1]

\* The files save writes; at_save is history, the agent as it was then.
save(a) ==
    [q_network |-> SaveWeights(a.q_built, a.q_network),
     target_network |-> SaveWeights(a.t_built, a.target_network),
     state_json |-> JsonDump([epsilon |-> a.epsilon, step_count |-> a.step_count,
                              loss_history |-> a.loss_history]),
     at_save |-> a]

RestoredKeepingHistory(a, checkpoint) ==
    [a EXCEPT !.epsilon = checkpoint["epsilon"],
              !.step_count = checkpoint["step_count"]]

\* The three assignments that end load.
Restored(a, checkpoint) ==
    [a EXCEPT !.epsilon = checkpoint["epsilon"],
              !.step_count = checkpoint["step_count"],
              !.loss_history = checkpoint["loss_history"]]

load(a, files) ==
    Restored([a EXCEPT !.q_network = LoadWeights(a.q_network, files.q_network),
                       !.target_network = LoadWeights(a.target_network, files.target_network)],
             JsonLoad(files.state_json))

\* ------------------------------------------------------------ observations
\* Coordinates are in half units, so that the reset corners (3.5, 1, 3.5) are
\* integers; time_remaining is in hundredths.
\* None as a colour is -1, an id no agent has; None as a position is the
\* empty tuple.
NoColor == -1
NoPosition == <<>>
BridgeAgents == 0 .. 2
Origin == <<0, 2, 0>>
NearPoint == <<2, 2, 2>>
OtherPoint == <<-2, 2, -2>>
FarPoint == <<200, 2, 0>>
Corners == [i \in BridgeAgents |->
               IF i = 0 THEN <<7, 2, 7>> ELSE IF i = 1 THEN <<-7, 2, 7>> ELSE <<7, 2, -7>>]

CP(pos, color) == [position |-> pos, color |-> color]

MockPoints == <<CP(NearPoint, NoColor), CP(OtherPoint, 1)>>
MockOwned == [i \in BridgeAgents |-> IF i = 1 THEN 1 ELSE 0]

ObsPositions == {Origin, NearPoint}
ObsPoints == {<<>>, MockPoints, <<CP(FarPoint, 0), CP(Origin, NoColor)>>}
ObsOwned == {MockOwned, [i \in BridgeAgents |-> IF i = 0 THEN 7 ELSE 1]}
ObsTimes == {0, 80}

\* What send_command_to_game / get_game_state may answer: the game is outside
\* the program.  The mock answer of send_command_to_game is one of them.
Observations ==
    [agent_position : ObsPositions, critical_points : ObsPoints,
     agent_owned_points : ObsOwned, time_remaining : ObsTimes]

MockState ==
    [agent_position |-> Origin, critical_points |-> MockPoints,
     agent_owned_points |-> MockOwned, time_remaining |-> 80]

\* ------------------------------------------------------------ GameStateProcessor
\* Features are in thousandths.  A game state is a record; a key the game
\* left out is a field the record does not have.
cp_feature_dim == 7

compute_state_dim ==
    3 + max_cps * cp_feature_dim + grid_size * grid_size + 1 + 2

\* (c + map_size / 2) / map_size, c in half units.
Normalized(c, map_size) == ((c + map_size) * 1000) \div (2 * map_size)

\* c / 5, c in half units.
NormalizedHeight(c) == c * 100

NormalizedPos(pos, map_size) ==
    <<Normalized(pos[1], map_size), NormalizedHeight(pos[2]), Normalized(pos[3], map_size)>>

\* color_onehot: entry 0 for None, entry min(int(color) + 1, 3) otherwise,
\* as positions 1 .. 4 of a tuple.
ColorIndex(color) == IF color = NoColor THEN 1 ELSE Min(color + 1, 3) + 1

ColorOneHot(color) == [j \in 1 .. 4 |-> IF j = ColorIndex(color) THEN 1000 ELSE 0]

\* cp_pos + color_onehot + [available]: 3 + 4 + 1 entries for a point that
\* is there, against the cp_feature_dim zeros of one that is not.
PointWidth == 3 + 4 + 1

CpFeatures(cp, map_size) ==
    NormalizedPos(cp.position, map_size) \o ColorOneHot(cp.color)
        \o <<IF cp.available THEN 1000 ELSE 0>>

ZeroPad == [j \in 1 .. cp_feature_dim |-> 0]

RECURSIVE CpSlots(_, _, _, _)
\* "for i in range(self.max_cps)", from slot i (counted from 1) on.
CpSlots(critical_points, map_size, i, slots) ==
    IF i > slots THEN <<>>
    ELSE (IF i <= Len(critical_points)
          THEN CpFeatures(critical_points[i], map_size)
          ELSE ZeroPad)
         \o CpSlots(critical_points, map_size, i + 1, slots)

SlotsOfEveryPoint(critical_points) == Max(max_cps, Len(critical_points))

SlotsEncoded(critical_points) == max_cps

\* game_state.get(key, default)
MapSizeOf(game_state) ==
    IF "map_size" \in DOMAIN game_state THEN game_state.map_size ELSE 10

NavGridOf(game_state) ==
    IF "navigation_grid" \in DOMAIN game_state
    THEN [j \in DOMAIN game_state.navigation_grid |-> 1000 * game_state.navigation_grid[j]]
    ELSE [j \in 1 .. (grid_size * grid_size) |-> 0]

process_state(game_state) ==
    NormalizedPos(game_state.agent_position, MapSizeOf(game_state))
        \o CpSlots(game_state.critical_points, MapSizeOf(game_state), 1,
                   SlotsEncoded(game_state.critical_points))
        \o NavGridOf(game_state)
        \o <<10 * game_state.time_remaining>>
        \o <<game_state.nearest_unclaimed_distance, game_state.nearest_enemy_distance>>

\* Critical points as the game lists them, with their availability.
PCP(pos, color, available) == [position |-> pos, color |-> color, available |-> available]

ProcPoints ==
    {<<>>,
     <<PCP(NearPoint, NoColor, TRUE)>>,
     <<PCP(NearPoint, NoColor, TRUE), PCP(OtherPoint, 1, FALSE)>>,
     <<PCP(OtherPoint, 3, TRUE), PCP(NearPoint, 0, TRUE)>>,
     <<PCP(NearPoint, NoColor, TRUE), PCP(OtherPoint, 1, FALSE), PCP(Origin, 2, TRUE)>>,
     <<PCP(NearPoint, NoColor, TRUE), PCP(OtherPoint, 1, FALSE), PCP(Corners[0], 0, FALSE)>>}

\* Grids of the length the processor expects, one shorter and one longer.
ProcGrids ==
    {[j \in 1 .. n |-> IF j = 1 THEN w ELSE 0] :
        n \in (grid_size * grid_size - 1) .. (grid_size * grid_size + 1), w \in {0, 1}}

ProcStatesWithoutGrid ==
    [agent_position : ObsPositions, critical_points : ProcPoints,
     time_remaining : ObsTimes,
     nearest_unclaimed_distance : {500}, nearest_enemy_distance : {700},
     map_size : {10}]

ProcStatesWithGrid ==
    [agent_position : ObsPositions, critical_points : ProcPoints,
     time_remaining : ObsTimes, navigation_grid : ProcGrids,
     nearest_unclaimed_distance : {500}, nearest_enemy_distance : {700},
     map_size : {10}]

\* ------------------------------------------------------------ rewards
\* Rewards are in thousandths, distances in hundredths.
Abs(x) == IF x < 0 THEN -x ELSE x

RECURSIVE SqrtSearch(_, _, _)
SqrtSearch(n, lo, hi) ==
    IF lo >= hi THEN lo
    ELSE LET mid == (lo + hi + 1) \div 2
         IN  IF mid * mid <= n THEN SqrtSearch(n, mid, hi) ELSE SqrtSearch(n, lo, mid - 1)

\* sum((a - b) ** 2) ** 0.5 of two points given in half units, in
\* hundredths.  The root lies between the largest of the three differences
\* and their sum, which is where it is looked for.
distance(p1, p2) ==
    LET dx == Abs(p1[1] - p2[1])
        dy == Abs(p1[2] - p2[2])
        dz == Abs(p1[3] - p2[3])
    IN  SqrtSearch(2500 * (dx * dx + dy * dy + dz * dz),
                   50 * Max(dx, Max(dy, dz)), 50 * (dx + dy + dz))

SetMin(S) == CHOOSE x \in S : \A y \in S : x <= y

TargetPointsAnyOwner(critical_points, target_type, agent_id) ==
    {critical_points[k].position : k \in
        {k \in DOMAIN critical_points :
            \/ target_type = "unclaimed" /\ critical_points[k].color = NoColor
            \/ target_type = "enemy" /\ critical_points[k].color # NoColor}}

TargetPoints(critical_points, target_type, agent_id) ==
    {critical_points[k].position : k \in
        {k \in DOMAIN critical_points :
            \/ target_type = "unclaimed" /\ critical_points[k].color = NoColor
            \/ /\ target_type = "enemy"
               /\ critical_points[k].color # NoColor
               /\ critical_points[k].color # agent_id}}

\* reward_scale is in tenths: 1 for 0.1, 2 for 0.2.
get_proximity_reward(current_pos, prev_pos, critical_points, target_type, reward_scale, agent_id) ==
    LET target_points == TargetPoints(critical_points, target_type, agent_id)
    IN  IF target_points = {} THEN 0
        ELSE reward_scale * (SetMin({distance(prev_pos, tp) : tp \in target_points})
                             - SetMin({distance(current_pos, tp) : tp \in target_points}))

PointTerm(point_change) ==
    IF point_change > 0 THEN 1000 * point_change
    ELSE IF point_change < 0 THEN -1000 * Abs(point_change)
    ELSE 0

UnclaimedTerm(current_pos, prev_pos, critical_points) ==
    get_proximity_reward(current_pos, prev_pos, critical_points, "unclaimed", 1, NoColor)

EnemyTerm(current_pos, prev_pos, critical_points, agent_id) ==
    get_proximity_reward(current_pos, prev_pos, critical_points, "enemy", 2, agent_id)

ShapingTerms(current_pos, prev_pos, critical_points, agent_id) ==
    UnclaimedTerm(current_pos, prev_pos, critical_points)
    + EnemyTerm(current_pos, prev_pos, critical_points, agent_id)

ClipAboveOnly(x) == Min(x, 5000)

\* np.clip(reward, -5.0, 5.0)
Clip(x) == Max(-5000, Min(x, 5000))

\* ------------------------------------------------------------ GameEnvironment
NewGameEnvironment ==
    [kind |-> "game", current_step |-> 0,
     previous_owned_points |-> 0, previous_position |-> NoPosition]

GameReset(e) ==
    [e EXCEPT !.current_step = 0, !.previous_owned_points = 0,
              !.previous_position = NoPosition]

\* calculate_reward: the parts of the reward before clipping.
GamePointTerm(e, state, agent_id) ==
    PointTerm(state.agent_owned_points[agent_id] - e.previous_owned_points)

GameShaping(e, state, agent_id) ==
    IF e.previous_position # NoPosition
    THEN ShapingTerms(state.agent_position, e.previous_position,
                      state.critical_points, agent_id)
    ELSE 0

GameRawReward(e, state, agent_id) ==
    GamePointTerm(e, state, agent_id) + GameShaping(e, state, agent_id) - 10

GameAfterReward(e, state, agent_id) ==
    [e EXCEPT !.previous_owned_points = state.agent_owned_points[agent_id],
              !.previous_position = state.agent_position]

GameDone(e, state) ==
    e.current_step >= max_episode_steps \/ state.time_remaining <= 0

\* ------------------------------------------------------------ BridgedGameEnvironment
NewBridgedEnvironment ==
    [kind |-> "bridged", current_step |-> 0, previous_states |-> <<>>]

\* previous_states is a dict: a function on the agent ids it has keys for.
BridgedReset(e, initial_state) ==
    [e EXCEPT !.current_step = 0,
              !.previous_states =
                  [i \in BridgeAgents |->
                      [owned_points |-> initial_state.agent_owned_points[i],
                       position |-> Corners[i]]]]

BridgedPrev(e, agent_id) ==
    IF agent_id \in DOMAIN e.previous_states
    THEN e.previous_states[agent_id]
    ELSE [owned_points |-> 0, position |-> Origin]

BridgedPointTerm(e, state, agent_id) ==
    PointTerm(state.agent_owned_points[agent_id] - BridgedPrev(e, agent_id).owned_points)

BridgedShaping(e, state, agent_id) ==
    ShapingTerms(state.agent_position, BridgedPrev(e, agent_id).position,
                 state.critical_points, agent_id)

BridgedRawReward(e, state, agent_id) ==
    BridgedPointTerm(e, state, agent_id) + BridgedShaping(e, state, agent_id) - 10

BridgedAfterReward(e, state, agent_id) ==
    [e EXCEPT !.previous_states =
        [i \in (DOMAIN e.previous_states) \cup {agent_id} |->
            IF i = agent_id
            THEN [owned_points |-> state.agent_owned_points[agent_id],
                  position |-> state.agent_position]
            ELSE e.previous_states[i]]]

BridgedDone(e, state) ==
    e.current_step >= max_episode_steps \/ state.time_remaining <= 1

\* ------------------------------------------------------------ either environment
PointTermOf(e, state, agent_id) ==
    IF e.kind = "game" THEN GamePointTerm(e, state, agent_id)
    ELSE BridgedPointTerm(e, state, agent_id)

RawReward(e, state, agent_id) ==
    IF e.kind = "game" THEN GameRawReward(e, state, agent_id)
    ELSE BridgedRawReward(e, state, agent_id)

calculate_reward(e, state, agent_id) == Clip(RawReward(e, state, agent_id))

\* The position the shaping terms are measured from, NoPosition when they
\* are skipped.
ShapingFrom(e, agent_id) ==
    IF e.kind = "game" THEN e.previous_position ELSE BridgedPrev(e, agent_id).position

UnclaimedOf(e, state, agent_id) ==
    IF ShapingFrom(e, agent_id) = NoPosition THEN 0
    ELSE UnclaimedTerm(state.agent_position, ShapingFrom(e, agent_id), state.critical_points)

EnemyOf(e, state, agent_id) ==
    IF ShapingFrom(e, agent_id) = NoPosition THEN 0
    ELSE EnemyTerm(state.agent_position, ShapingFrom(e, agent_id),
                   state.critical_points, agent_id)

env_reset(e, initial_state) ==
    IF e.kind = "game" THEN GameReset(e) ELSE BridgedReset(e, initial_state)

\* step: the environment after the call, the game having answered new_state.
env_step(e, new_state, agent_id) ==
    LET e1 == [e EXCEPT !.current_step = e.current_step + 1]
    IN  IF e.kind = "game" THEN GameAfterReward(e1, new_state, agent_id)
        ELSE BridgedAfterReward(e1, new_state, agent_id)

\* What step returns: the reward, the done flag and the info entries; point,
\* unclaimed and enemy are the terms of the reward, raw their sum with the
\* time penalty before clipping, state the game state the reward was
\* computed from.
StepResult(e, new_state, agent_id) ==
    LET e1 == [e EXCEPT !.current_step = e.current_step + 1]
    IN  [kind |-> "step",
         reward |-> calculate_reward(e, new_state, agent_id),
         done |-> IF e.kind = "game" THEN GameDone(e1, new_state)
                  ELSE BridgedDone(e1, new_state),
         owned_points |-> new_state.agent_owned_points[agent_id],
         step |-> e1.current_step,
         point |-> PointTermOf(e, new_state, agent_id),
         unclaimed |-> UnclaimedOf(e, new_state, agent_id),
         enemy |-> EnemyOf(e, new_state, agent_id),
         raw |-> RawReward(e, new_state, agent_id),
         state |-> new_state]

\* ------------------------------------------------------------ one agent
\* The operations of one DQNAgent, called in any order.
Self == 0

Transitions ==
    {[state |-> 0, action |-> 0, reward |-> 990, next_state |-> 1, done |-> FALSE],
     [state |-> 1, action |-> 4, reward |-> -10, next_state |-> 1, done |-> TRUE]}

RandomDraws == {0, EpsScale - 1}

InitAgent ==
    /\ agents \in [{Self} -> {NewAgent(wq, wt) : wq \in InitWeights, wt \in InitWeights}]
    /\ ret = None
    /\ last_op = <<"init", Self>>
    /\ pushed = [i \in {Self} |-> <<>>]
    /\ env = NewGameEnvironment
    /\ own_prev = [i \in BridgeAgents |-> 0]
    /\ own_pos = [i \in BridgeAgents |-> NoPosition]
    /\ tm = <<>>
    /\ disk = NoFile

StoreExperience(ts) ==
    /\ Len(pushed[Self]) < MaxPushes
    /\ \E t \in ts :
           /\ agents' = [agents EXCEPT ![Self] = store_experience(@, t)]
           /\ pushed' = [pushed EXCEPT ![Self] = Append(@, t)]
    /\ ret' = None
    /\ last_op' = <<"store", Self>>
    /\ UNCHANGED <<envVars, tm, disk>>

SelectAction(states, draws) ==
    /\ \E s \in states, training \in BOOLEAN, rnd \in draws :
           /\ agents' = [agents EXCEPT ![Self] = AfterSelect(@, training, rnd)]
           /\ \E ract \in (IF Explores(agents[Self], training, rnd) THEN ActionIds ELSE {0}) :
                  ret' = Value(ActionOf(agents[Self], s, training, rnd, ract))
           /\ last_op' = <<IF training THEN "select" ELSE "select_greedy", Self, s>>
    /\ UNCHANGED <<pushed, envVars, tm, disk>>

TrainStep ==
    /\ agents' = [agents EXCEPT ![Self] = train_step(@)]
    /\ ret' = TrainResult(agents[Self])
    /\ last_op' = <<IF TrainIsNoOp(agents[Self]) THEN "train_noop"
                    ELSE IF SyncDue(agents[Self].step_count + 1) THEN "train_sync"
                    ELSE "train", Self>>
    /\ UNCHANGED <<pushed, envVars, tm, disk>>

\* ReplayBuffer.sample(k) on the agent's buffer, k a batch size: a positive
\* number.  last_op keeps k as its third entry.
Sample ==
    /\ \E k \in 1 .. (capacity + 1) :
           /\ IF SampleRaises(agents[Self].memory, k)
              THEN ret' = Raised("ValueError")
              ELSE \E d \in Draws(Len(agents[Self].memory), k) :
                       ret' = [kind |-> "batch", val |-> Batch(agents[Self].memory, d),
                               positions |-> d]
           /\ last_op' = <<"sample", Self, k>>
    /\ UNCHANGED <<agents, pushed, envVars, tm, disk>>

NextAgent ==
    \/ /\ agents[Self].step_count < MaxSteps
       /\ TrainStep
    \/ StoreExperience(Transitions)
    \/ SelectAction(StateIds, RandomDraws)
    \/ Sample

SpecAgent == InitAgent /\ [][NextAgent]_vars

NextEps ==
    \/ /\ agents[Self].step_count < MaxDeepSteps
       /\ TrainStep
    \/ StoreExperience({CHOOSE t \in Transitions : ~t.done})
    \/ SelectAction({0}, {epsilon_end - 1, EpsScale - 1})

SpecEps == InitAgent /\ [][NextEps]_vars

\* ------------------------------------------------------------ one agent, saved and loaded
Save ==
    /\ disk' = save(agents[Self])
    /\ ret' = None
    /\ last_op' = <<"save", Self>>
    /\ UNCHANGED <<agents, pushed, envVars, tm>>

\* load of a path nothing was saved under raises at the first load_weights.
Load ==
    /\ IF disk = NoFile
       THEN /\ ret' = Raised("NotFoundError")
            /\ agents' = agents
       ELSE /\ ret' = None
            /\ agents' = [agents EXCEPT ![Self] = load(@, disk)]
    /\ last_op' = <<"load", Self>>
    /\ UNCHANGED <<pushed, envVars, tm, disk>>

NextSave ==
    \/ /\ agents[Self].iterations < MaxSaveSteps
       /\ TrainStep
    \/ StoreExperience({CHOOSE t \in Transitions : ~t.done})
    \/ Save
    \/ Load

SpecSave == InitAgent /\ [][NextSave]_vars

UpdateTargetNetwork ==
    /\ agents' = [agents EXCEPT ![Self] = update_target_network(@)]
    /\ ret' = None
    /\ last_op' = <<"update_target", Self>>
    /\ UNCHANGED <<pushed, envVars, tm, disk>>

\* Every method of a DQNAgent, called in any order.
NextOps ==
    \/ /\ agents[Self].iterations < MaxSaveSteps
       /\ TrainStep
    \/ StoreExperience({CHOOSE t \in Transitions : ~t.done})
    \/ SelectAction({0}, RandomDraws)
    \/ UpdateTargetNetwork
    \/ Save
    \/ Load

SpecOps == InitAgent /\ [][NextOps]_vars

\* ------------------------------------------------------------ one environment
\* A GameEnvironment or a BridgedGameEnvironment, its reset and step called in
\* any order with any agent id, the game answering any observation.
InitEnv ==
    /\ env \in {NewGameEnvironment, NewBridgedEnvironment}
    /\ own_prev = [i \in BridgeAgents |-> 0]
    /\ own_pos = [i \in BridgeAgents |-> NoPosition]
    /\ ret = None
    /\ last_op = <<"init", 0>>
    /\ agents = <<>>
    /\ pushed = <<>>
    /\ tm = <<>>
    /\ disk = NoFile

EnvReset ==
    /\ \E initial_state \in Observations : env' = env_reset(env, initial_state)
    /\ own_prev' = [i \in BridgeAgents |-> 0]
    /\ own_pos' = [i \in BridgeAgents |-> NoPosition]
    /\ ret' = None
    /\ last_op' = <<"reset", 0>>
    /\ UNCHANGED <<agentVars, tm, disk>>

EnvStep ==
    /\ env.current_step < MaxEnvSteps
    /\ \E agent_id \in AgentIds, new_state \in Observations :
           /\ env' = env_step(env, new_state, agent_id)
           /\ ret' = StepResult(env, new_state, agent_id)
           /\ own_prev' = [own_prev EXCEPT ![agent_id] = new_state.agent_owned_points[agent_id]]
           /\ own_pos' = [own_pos EXCEPT ![agent_id] = new_state.agent_position]
           /\ last_op' = <<"step", agent_id>>
    /\ UNCHANGED <<agentVars, tm, disk>>

NextEnv == EnvReset \/ EnvStep

SpecEnv == InitEnv /\ [][NextEnv]_vars

\* ------------------------------------------------------------ one processor
\* process_state called on any game state; ret keeps the input beside the
\* vector returned.
InitProc ==
    /\ ret = None
    /\ last_op = <<"init", 0>>
    /\ agents = <<>>
    /\ pushed = <<>>
    /\ env = <<>>
    /\ own_prev = <<>>
    /\ own_pos = <<>>
    /\ tm = <<>>
    /\ disk = NoFile

ProcessState(game_states) ==
    /\ \E game_state \in game_states :
           ret' = [kind |-> "state", val |-> process_state(game_state), input |-> game_state]
    /\ last_op' = <<"process_state", 0>>
    /\ UNCHANGED <<agentVars, envVars, tm, disk>>

NextProc ==
    \/ ProcessState(ProcStatesWithGrid)
    \/ ProcessState(ProcStatesWithoutGrid)

SpecProc == InitProc /\ [][NextProc]_vars

\* ------------------------------------------------------------ TrainingManager
\* train(), the evaluate() it calls and their run_episode calls, one step per
\* call run_episode makes.  tm.pc is the place in the code:
\*   "idle"       train's loop, before run_episode(training=True)
\*   "eval_idle"  evaluate's loop, before run_episode(training=False)
\*   "select"     run_episode's first for loop, at agent tm.agent_id
\*   "step"       the second for loop, before env.step for tm.agent_id
\*   "store"      before store_experience for tm.agent_id
\*   "train"      before train_step for tm.agent_id
\*   "end_episode" after the while loop
\*   "finished"   train has returned
\* tm.any_done is history: some env.step of the episode has reported done.

\* The state vector of an observation, as an id: process_state reads the
\* position, the critical points and the time, not the owned-point counts.
StateOf(obs) ==
    (obs.agent_position[1] + Len(obs.critical_points)
     + (IF obs.time_remaining > 0 THEN 1 ELSE 0)) % 2

TrainObservations == {MockState, [MockState EXCEPT !.time_remaining = 0]}

RandIntDraws == {action_dim - 1}

Put(f, k, v) == [j \in (DOMAIN f) \cup {k} |-> IF j = k THEN v ELSE f[j]]

NewTrainingManager ==
    [pc |-> "idle", episode |-> 0, eval_left |-> 0,
     training |-> TRUE, step |-> 0, done |-> FALSE, any_done |-> FALSE, agent_id |-> 0,
     states |-> <<>>, actions |-> <<>>, next_states |-> <<>>, rewards |-> <<>>,
     episode_rewards |-> <<>>,
     total_rewards |-> [i \in AgentIds |-> <<>>],
     episode_lengths |-> <<>>]

InitTrain ==
    /\ agents = [i \in AgentIds |-> NewAgent(0, 1)]
    /\ pushed = <<>>
    /\ env = NewGameEnvironment
    /\ own_prev = [i \in BridgeAgents |-> 0]
    /\ own_pos = [i \in BridgeAgents |-> NoPosition]
    /\ tm = NewTrainingManager
    /\ disk = NoFile
    /\ ret = None
    /\ last_op = <<"init", 0>>

\* The while condition of run_episode.
LoopGoesOn(done, ticks) == ~done /\ ticks < MaxTicks

\* run_episode up to the while loop: env.reset() and the locals.
StartEpisode ==
    /\ tm.pc \in {"idle", "eval_idle"}
    /\ \E initial_state \in TrainObservations :
           /\ env' = env_reset(env, initial_state)
           /\ tm' = [tm EXCEPT
                  !.training = (tm.pc = "idle"),
                  !.states = [i \in AgentIds |-> StateOf(initial_state)],
                  !.episode_rewards = [i \in AgentIds |-> <<>>],
                  !.done = FALSE, !.any_done = FALSE, !.step = 0,
                  !.actions = <<>>, !.next_states = <<>>, !.rewards = <<>>,
                  !.agent_id = 0,
                  !.pc = IF LoopGoesOn(FALSE, 0) THEN "select" ELSE "end_episode"]
    /\ own_prev' = [i \in BridgeAgents |-> 0]
    /\ own_pos' = [i \in BridgeAgents |-> NoPosition]
    /\ ret' = None
    /\ last_op' = <<"reset", 0>>
    /\ UNCHANGED <<agentVars, disk>>

\* One iteration of the first for loop: select_action for tm.agent_id.
SelectFor ==
    /\ tm.pc = "select"
    /\ LET i == tm.agent_id
       IN  \E rnd \in RandomDraws, ract \in RandIntDraws :
               LET action == ActionOf(agents[i], tm.states[i], tm.training, rnd, ract)
               IN  /\ agents' = [agents EXCEPT ![i] = AfterSelect(@, tm.training, rnd)]
                   /\ tm' = [tm EXCEPT
                          !.actions = Put(tm.actions, i, action),
                          !.agent_id = IF i = num_agents - 1 THEN 0 ELSE i + 1,
                          !.next_states = IF i = num_agents - 1 THEN <<>> ELSE @,
                          !.rewards = IF i = num_agents - 1 THEN <<>> ELSE @,
                          !.pc = IF i = num_agents - 1 THEN "step" ELSE "select"]
                   /\ ret' = Value(action)
                   /\ last_op' = <<"select", i>>
    /\ UNCHANGED <<pushed, envVars, disk>>

\* The end of one iteration of the second for loop: the next agent, or the
\* end of the tick and the while condition.
Advance(t) ==
    IF t.agent_id < num_agents - 1
    THEN [t EXCEPT !.agent_id = t.agent_id + 1, !.pc = "step"]
    ELSE [t EXCEPT !.agent_id = 0,
                   !.states = t.next_states,
                   !.step = t.step + 1,
                   !.actions = <<>>,
                   !.pc = IF LoopGoesOn(t.done, t.step + 1) THEN "select" ELSE "end_episode"]

StoresAndTrainsAlways(t) == TRUE

StoresAndTrainsNever(t) == FALSE

\* "if training:"
StoresAndTrains(t) == t.training

\* env.step for tm.agent_id, and the bookkeeping up to "if training".
StepFor ==
    /\ tm.pc = "step"
    /\ LET i == tm.agent_id
       IN  \E new_state \in TrainObservations :
               LET r == StepResult(env, new_state, i)
                   t1 == [tm EXCEPT
                             !.next_states = Put(tm.next_states, i, StateOf(new_state)),
                             !.rewards = Put(tm.rewards, i, r.reward),
                             !.episode_rewards[i] = Append(@, r.reward),
                             !.done = r.done,
                             !.any_done = tm.any_done \/ r.done]
               IN  /\ env' = env_step(env, new_state, i)
                   /\ own_prev' = [own_prev EXCEPT ![i] = new_state.agent_owned_points[i]]
                   /\ own_pos' = [own_pos EXCEPT ![i] = new_state.agent_position]
                   /\ ret' = r
                   /\ tm' = IF StoresAndTrains(tm) THEN [t1 EXCEPT !.pc = "store"]
                            ELSE Advance(t1)
                   /\ last_op' = <<"step", i>>
    /\ UNCHANGED <<agentVars, disk>>

StoreIntoEvery(ags, i, t) == [j \in DOMAIN ags |-> store_experience(ags[j], t)]

StoreInto(ags, i, t) == [ags EXCEPT ![i] = store_experience(@, t)]

TrainsAfterStoreAtFill(a) == Len(a.memory) >= WarmUpFill

\* "if len(self.agents[agent_id].memory) > 1000:"
TrainsAfterStore(a) == Len(a.memory) > WarmUpFill

\* store_experience for tm.agent_id, and the test that guards train_step.
StoreFor ==
    /\ tm.pc = "store"
    /\ LET i == tm.agent_id
           t == [state |-> tm.states[i], action |-> tm.actions[i], reward |-> tm.rewards[i],
                 next_state |-> tm.next_states[i], done |-> tm.done]
       IN  /\ agents' = StoreInto(agents, i, t)
           /\ tm' = IF TrainsAfterStore(agents'[i]) THEN [tm EXCEPT !.pc = "train"]
                    ELSE Advance(tm)
           /\ ret' = None
           /\ last_op' = <<"store", i>>
    /\ UNCHANGED <<pushed, envVars, disk>>

TrainInto(ags, i) == [ags EXCEPT ![i] = train_step(@)]

\* train_step for tm.agent_id.
TrainFor ==
    /\ tm.pc = "train"
    /\ LET i == tm.agent_id
       IN  /\ agents' = TrainInto(agents, i)
           /\ ret' = TrainResult(agents[i])
           /\ last_op' = <<IF TrainIsNoOp(agents[i]) THEN "train_noop"
                           ELSE IF SyncDue(agents[i].step_count + 1) THEN "train_sync"
                           ELSE "train", i>>
    /\ tm' = Advance(tm)
    /\ UNCHANGED <<pushed, envVars, disk>>

RECURSIVE Sum(_)
Sum(seq) == IF seq = <<>> THEN 0 ELSE Head(seq) + Sum(Tail(seq))

\* train's loop after run_episode returns (and after evaluate, when it is
\* called): the next episode, or the end.
NextTrainIteration(t) ==
    [t EXCEPT !.episode = t.episode + 1,
              !.pc = IF t.episode + 1 < num_episodes THEN "idle" ELSE "finished"]

EvaluationDue(episode) == episode % eval_interval = 0 /\ episode > 0

\* The end of run_episode, the metrics it stores, and the caller's next step.
EndEpisode ==
    /\ tm.pc = "end_episode"
    /\ LET t1 == [tm EXCEPT
                     !.total_rewards = [i \in AgentIds |->
                                           Append(tm.total_rewards[i], Sum(tm.episode_rewards[i]))],
                     !.episode_lengths = Append(@, tm.step)]
       IN  tm' = IF tm.training
                 THEN IF EvaluationDue(tm.episode) /\ eval_episodes > 0
                      THEN [t1 EXCEPT !.eval_left = eval_episodes, !.pc = "eval_idle"]
                      ELSE NextTrainIteration(t1)
                 ELSE IF tm.eval_left > 1
                      THEN [t1 EXCEPT !.eval_left = tm.eval_left - 1, !.pc = "eval_idle"]
                      ELSE NextTrainIteration([t1 EXCEPT !.eval_left = 0])
    /\ ret' = None
    /\ last_op' = <<"end_episode", 0>>
    /\ UNCHANGED <<agentVars, envVars, disk>>

NextTrain ==
    \/ StartEpisode
    \/ SelectFor
    \/ StepFor
    \/ StoreFor
    \/ TrainFor
    \/ EndEpisode

SpecTrain == InitTrain /\ [][NextTrain]_vars

\* ------------------------------------------------------------ claims
TrainLabels == {"train_noop", "train", "train_sync"}

\* C1: across train_step, store_experience and select_action calls on one
\* agent, epsilon never increases from one call to the next and is never
\* below epsilon_end.
C1_EpsilonNonIncreasingAboveFloor ==
    /\ [](agents[Self].epsilon >= epsilon_end)
    /\ [][agents'[Self].epsilon <= agents[Self].epsilon]_vars

\* The decay has been clamped: epsilon sits on the floor after a train_step
\* whose product fell below it, and a further train_step has kept it there.
C1_Witness ==
    /\ agents[Self].epsilon = epsilon_end
    /\ last_op[1] \in {"train", "train_sync"}
    /\ agents[Self].step_count = MaxDeepSteps

\* C2: after any sequence of push and sample calls the buffer holds at most
\* capacity transitions.
C2_LenAtMostCapacity == Len(agents[Self].memory) <= capacity

\* More transitions have been pushed than the buffer holds, and a sample
\* has been drawn from the full buffer.
C2_Witness ==
    /\ Len(pushed[Self]) > capacity
    /\ Len(agents[Self].memory) = capacity
    /\ last_op[1] = "sample"
    /\ ret.kind = "batch"

\* C3: right after every update_target_network call, the constructor's
\* included, the target network answers every probe state as the online
\* network does.
C3_SyncedNetworksAgree ==
    (last_op[1] \in {"init", "train_sync"}) =>
        \A s \in StateIds :
            QValues(agents[Self].target_network, s) = QValues(agents[Self].q_network, s)

\* C4: a train_step called with fewer than batch_size transitions stored
\* returns None and changes no field of the agent.
C4_WarmUpTrainStepIsNoOp ==
    [][(last_op'[1] \in TrainLabels /\ Len(agents[Self].memory) < batch_size)
          => (ret' = None /\ agents' = agents)]_vars

\* train_step has returned from a buffer that is neither empty nor full
\* enough.
C4_Witness ==
    /\ last_op[1] = "train_noop"
    /\ Len(agents[Self].memory) > 0
    /\ Len(agents[Self].memory) < batch_size
    /\ ret = None

\* C5: an effective train_step adds one to step_count, changes the online
\* parameters, and changes the target parameters exactly when the new
\* step_count is a multiple of target_update_freq; no other call changes the
\* target parameters.
C5_TargetSyncCadence ==
    [][/\ (last_op'[1] \in TrainLabels /\ Len(agents[Self].memory) >= batch_size)
          => /\ agents'[Self].step_count = agents[Self].step_count + 1
             /\ agents'[Self].q_network # agents[Self].q_network
             /\ (agents'[Self].target_network # agents[Self].target_network)
                    <=> (agents'[Self].step_count % target_update_freq = 0)
       /\ (agents'[Self].target_network # agents[Self].target_network)
          => /\ last_op'[1] \in TrainLabels
             /\ agents'[Self].step_count = agents[Self].step_count + 1
             /\ agents'[Self].target_network = agents'[Self].q_network]_vars

\* The second synchronization has just happened.
C5_Witness ==
    /\ last_op[1] = "train_sync"
    /\ agents[Self].step_count = 2 * target_update_freq
    /\ agents[Self].target_network = agents[Self].q_network

\* C6: every reward step returns, from either environment, lies in [-5, 5].
C6_RewardWithinBounds ==
    (ret.kind = "step") => (ret.reward >= -5000 /\ ret.reward <= 5000)

\* A reward whose sum before clipping was below -5 has been returned as -5.
C6_Witness ==
    /\ ret.kind = "step"
    /\ ret.raw < -5000
    /\ ret.reward = -5000

C12_HoldsMostRecentInOrder ==
    LET n == Len(pushed[Self])
        m == Min(n, capacity)
    IN  agents[Self].memory = SubSeq(pushed[Self], n - m + 1, n)

\* A push onto a full buffer has dropped the oldest transition, which
\* differed from the one after it.
C12_Witness ==
    /\ last_op[1] = "store"
    /\ Len(pushed[Self]) = capacity + 1
    /\ pushed[Self][1] # pushed[Self][2]
    /\ Head(agents[Self].memory) = pushed[Self][2]

\* C13: process_state never returns a vector whose length is not
\* compute_state_dim(): it returns that length or it raises.
C13_VectorHasStateDim ==
    (ret.kind = "state") => (Len(ret.val) = compute_state_dim)

\* The entries process_state writes for the i-th point supplied (from 1).
PointBlock(vector, i) == SubSeq(vector, 3 + (i - 1) * PointWidth + 1, 3 + i * PointWidth)

\* The entries it writes for the j-th slot left empty, n points being encoded.
PadBlock(vector, n, j) ==
    SubSeq(vector, 3 + n * PointWidth + (j - 1) * cp_feature_dim + 1,
                   3 + n * PointWidth + j * cp_feature_dim)

\* C17: the vector encodes the first max_points critical points in their
\* order, each with exactly one one-hot entry set; every slot left over is
\* seven zeros; the navigation grid follows; and the points past max_points
\* change nothing.
C17_FirstMaxPointsEncoded ==
    (ret.kind = "state") =>
        LET points == ret.input.critical_points
            n == Min(Len(points), max_cps)
            kept == SubSeq(points, 1, n)
            rest == 3 + n * PointWidth + (max_cps - n) * cp_feature_dim
        IN  /\ \A i \in 1 .. n :
                   LET block == PointBlock(ret.val, i)
                   IN  /\ SubSeq(block, 1, 3) = NormalizedPos(points[i].position, 10)
                       /\ Cardinality({j \in 4 .. 7 : block[j] = 1000}) = 1
                       /\ \A j \in 4 .. 7 : block[j] \in {0, 1000}
                       /\ block[4] = 1000 <=> points[i].color = NoColor
                       /\ block[8] = (IF points[i].available THEN 1000 ELSE 0)
            /\ \A j \in 1 .. (max_cps - n) :
                   PadBlock(ret.val, n, j) = [x \in 1 .. cp_feature_dim |-> 0]
            /\ SubSeq(ret.val, rest + 1, Len(ret.val) - 3) = NavGridOf(ret.input)
            /\ ret.val = process_state([ret.input EXCEPT !.critical_points = kept])

\* A game state with more points than max_points has been encoded, the
\* point past max_points unlike the ones before it.
C17_Witness ==
    /\ ret.kind = "state"
    /\ Len(ret.input.critical_points) = max_cps + 1
    /\ ret.input.critical_points[max_cps + 1].color = 0
    /\ "navigation_grid" \in DOMAIN ret.input

\* C7: the point-delta term of the reward computed for an agent is that
\* agent's owned-point count minus the same agent's count at its own previous
\* step (0 right after a reset).
C7_PointDeltaIsOwnDelta ==
    [][(last_op'[1] = "step")
          => (ret'.point = PointTerm(ret'.owned_points - own_prev[last_op'[2]]))]_vars

\* C8: in run_episode no tick starts once an env.step of the episode has
\* reported done, and no episode runs more than the tick budget.
C8_NoTickAfterDone ==
    (tm.pc \in {"select", "step", "store", "train", "end_episode"}) =>
        /\ (tm.pc = "select") => ~tm.any_done
        /\ tm.step <= MaxTicks

\* What an agent has learnt: the fields C9 and C10 speak of.
Learnt(a) ==
    <<a.memory, a.epsilon, a.step_count, a.loss_history, a.q_network, a.target_network>>

InEvaluation(t) ==
    \/ t.pc = "eval_idle"
    \/ ~t.training /\ t.pc \in {"select", "step", "store", "train", "end_episode"}

\* C9: no step of an evaluation pass stores a transition or calls train_step,
\* and none changes an agent's buffer, epsilon, step_count, loss_history or
\* network parameters.
C9_EvaluationLeavesAgentsUnchanged ==
    [][InEvaluation(tm) =>
          /\ last_op'[1] \notin ({"store"} \cup TrainLabels)
          /\ \A i \in AgentIds : Learnt(agents'[i]) = Learnt(agents[i])]_vars

\* An evaluation pass has ended, its greedy actions chosen by an agent that
\* had stored transitions and trained before it.
C9_Witness ==
    /\ tm.pc = "finished"
    /\ ~tm.training
    /\ last_op[1] = "end_episode"
    /\ \E i \in AgentIds : agents[i].step_count > 0 /\ agents[i].epsilon < epsilon_start

\* C10: the env.step, store_experience and train_step made for agent i in a
\* training tick leave every other agent as it was.
C10_OtherAgentsUnchanged ==
    [][\A i \in AgentIds :
          (tm.training /\ last_op'[1] \in ({"step", "store"} \cup TrainLabels) /\ last_op'[2] = i)
              => \A j \in AgentIds \ {i} : agents'[j] = agents[j]]_vars

\* An effective train_step has just changed the last agent, the others
\* holding transitions of their own.
C10_Witness ==
    /\ tm.training
    /\ last_op = <<"train", num_agents - 1>>
    /\ agents[num_agents - 1].step_count > 0
    /\ \A j \in AgentIds : Len(agents[j].memory) > 0

\* An agent has no snapshot of its own: it has not been stepped since the
\* reset, and the reset made none for it.  BridgedGameEnvironment.reset
\* makes one for every agent; GameEnvironment.reset makes none.
HasNoSnapshot(e, agent_id) == e.kind = "game" /\ own_pos[agent_id] = NoPosition

\* C14: the first reward computed for an agent after a reset, the agent
\* having no snapshot of its own, is the point-delta term minus 0.01, with
\* no shaping term, whichever agent it is.
C14_FirstRewardHasNoShaping ==
    [][(last_op'[1] = "step" /\ HasNoSnapshot(env, last_op'[2]))
          => (ret'.raw = ret'.point - 10)]_vars

\* The distance from a position to the nearest unclaimed point of a game state.
NearestUnclaimed(pos, game_state) ==
    SetMin({distance(pos, tp) :
               tp \in TargetPoints(game_state.critical_points, "unclaimed", NoColor)})

\* Between its previous step and this one the agent has moved strictly
\* closer to the one unclaimed point there is, its owned-point count is the
\* same, and no point is owned by another agent.
MovedCloserOnly(agent_id, game_state) ==
    /\ own_pos[agent_id] # NoPosition
    /\ game_state.agent_owned_points[agent_id] = own_prev[agent_id]
    /\ TargetPoints(game_state.critical_points, "enemy", agent_id) = {}
    /\ Cardinality(TargetPoints(game_state.critical_points, "unclaimed", NoColor)) = 1
    /\ NearestUnclaimed(game_state.agent_position, game_state)
           < NearestUnclaimed(own_pos[agent_id], game_state)

\* C15: an agent that moves strictly closer to the single nearest unclaimed
\* point between two consecutive observations of its own, with no ownership
\* change and no enemy-owned point, is rewarded
\* 0.1 * (prev_dist - curr_dist) - 0.01: a positive shaping part and no
\* point-delta term.
C15_CloserToUnclaimedReward ==
    [][(last_op'[1] = "step" /\ MovedCloserOnly(last_op'[2], ret'.state)) =>
          LET gain == NearestUnclaimed(own_pos[last_op'[2]], ret'.state)
                      - NearestUnclaimed(ret'.state.agent_position, ret'.state)
          IN  /\ ret'.point = 0
              /\ ret'.unclaimed + ret'.enemy = gain
              /\ gain > 0
              /\ ret'.reward = gain - 10]_vars

\* The critical points of a game state without those agent_id owns.
WithoutOwn(game_state, agent_id) ==
    [game_state EXCEPT !.critical_points =
        SelectSeq(game_state.critical_points, LAMBDA cp : cp.color # agent_id)]

\* C16: the unclaimed term is zero when no point has colour None, the enemy
\* term is zero when every owned point is agent_id's own or none is owned,
\* and the points agent_id owns count toward neither term.
C16_NoQualifyingPointNoTerm ==
    [][(last_op'[1] = "step") =>
          LET agent_id == last_op'[2]
              critical_points == ret'.state.critical_points
          IN  /\ (\A k \in DOMAIN critical_points : critical_points[k].color # NoColor)
                     => ret'.unclaimed = 0
              /\ (\A k \in DOMAIN critical_points :
                         critical_points[k].color \in {NoColor, agent_id})
                     => ret'.enemy = 0
              /\ ret'.unclaimed = UnclaimedOf(env, WithoutOwn(ret'.state, agent_id), agent_id)
              /\ ret'.enemy = EnemyOf(env, WithoutOwn(ret'.state, agent_id), agent_id)]_vars

\* The agent has moved, its distance to a point of its own and to an
\* unclaimed point both changing: the unclaimed term counts, the enemy term
\* is zero.
C16_Witness ==
    /\ ret.kind = "step"
    /\ \E k \in DOMAIN ret.state.critical_points :
           ret.state.critical_points[k].color = last_op[2]
    /\ ret.unclaimed # 0
    /\ ret.enemy = 0

\* C18: select_action with training false returns an action id that is the
\* argmax of the online network's values for the state, the lowest on ties,
\* whatever epsilon and the random draw are, and changes nothing the agent
\* has learnt.
C18_GreedyWhenNotTraining ==
    [][(last_op'[1] = "select_greedy") =>
          LET q == QValues(agents[Self].q_network, last_op'[3])
              chosen == ret'.val
          IN  /\ ret'.kind = "value"
              /\ chosen \in 0 .. (action_dim - 1)
              /\ \A b \in ActionIds : q[b] <= q[chosen]
              /\ \A b \in ActionIds : (b < chosen) => (q[b] < q[chosen])
              /\ Learnt(agents'[Self]) = Learnt(agents[Self])]_vars

\* An agent whose epsilon is above every random draw, and which has
\* trained, has chosen greedily an action that is not the first, among tied
\* values.
C18_Witness ==
    /\ last_op[1] = "select_greedy"
    /\ agents[Self].epsilon > EpsScale - 1
    /\ Len(agents[Self].memory) > 0
    /\ ret.val > 0
    /\ \E b \in ActionIds :
           /\ b > ret.val
           /\ QValues(agents[Self].q_network, last_op[3])[b]
                  = QValues(agents[Self].q_network, last_op[3])[ret.val]

\* C19: load of a path restores epsilon, step_count and loss_history as they
\* were when save wrote it, whatever train_step calls came between.
C19_LoadRestoresSavedState ==
    [][(last_op'[1] = "load" /\ ret'.kind # "raised") =>
          /\ agents'[Self].epsilon = disk.at_save.epsilon
          /\ agents'[Self].step_count = disk.at_save.step_count
          /\ agents'[Self].loss_history = disk.at_save.loss_history]_vars

\* A load has taken back train_step calls made after the save, which itself
\* came after training.
C19_Witness ==
    /\ last_op[1] = "load"
    /\ ret.kind = "None"
    /\ disk # NoFile
    /\ disk.at_save.step_count > 0
    /\ agents[Self].iterations > agents[Self].step_count
    /\ Len(agents[Self].loss_history) = disk.at_save.step_count

\* The calls run_episode makes for one agent after the actions are chosen.
HandlingLabels == {"step", "store"} \cup TrainLabels

\* C20: in every tick env.step is called once per agent, in ascending order
\* of agent id, one call at a time: the step of agent 0 follows the last
\* select_action of the tick; the step of agent i + 1 follows the end of
\* agent i's handling, its store_experience and, when due, its train_step
\* included; and the tick ends only after the last agent's handling.
C20_SequentialTick ==
    [][/\ (last_op'[1] = "step" /\ last_op'[2] = 0)
              => (last_op = <<"select", num_agents - 1>>)
       /\ (last_op'[1] = "step" /\ last_op'[2] > 0) =>
              /\ last_op[1] \in HandlingLabels
              /\ last_op[2] = last_op'[2] - 1
              /\ tm.training => last_op[1] # "step"
              /\ (last_op[1] = "store") => ~TrainsAfterStore(agents[last_op[2]])
       /\ (last_op[1] \in HandlingLabels /\ last_op'[1] \notin HandlingLabels)
              => (last_op[2] = num_agents - 1)
       /\ (last_op[1] \in HandlingLabels /\ last_op'[1] \in HandlingLabels
              /\ last_op'[2] # last_op[2])
              => (last_op'[1] = "step" /\ last_op'[2] = last_op[2] + 1)
       /\ (last_op'[1] \in {"store"} \cup TrainLabels)
              => (last_op'[2] = last_op[2] /\ last_op[1] \in {"step", "store"})]_vars

\* In a second tick of a training episode the last agent is stepped, the
\* agent before it having stored and trained.
C20_Witness ==
    /\ last_op = <<"step", num_agents - 1>>
    /\ tm.training
    /\ tm.step > 0
    /\ agents[num_agents - 2].step_count > 0

\* The training episodes train() has completed: its loop variable counts
\* them, and the evaluation it calls comes after the episode of the same
\* iteration has ended.
TrainingEpisodesDone(t) == t.episode + (IF InEvaluation(t) THEN 1 ELSE 0)

\* C21: while train() runs and when it has returned, episode_lengths and
\* every agent's episode_rewards list hold one entry per training episode
\* that has ended, and none from an evaluation episode.  (The lists of
\* self.episode_rewards are tm.total_rewards here; tm.episode_rewards is the
\* local of run_episode.)
C21_MetricsCountTrainingEpisodes ==
    (tm.pc \in {"idle", "eval_idle", "finished"}) =>
        /\ Len(tm.episode_lengths) = TrainingEpisodesDone(tm)
        /\ \A i \in AgentIds : Len(tm.total_rewards[i]) = TrainingEpisodesDone(tm)

\* The two states of an agent in a training run, by its buffer's occupancy.
WarmingUp(a) == Len(a.memory) <= WarmUpFill

\* C22: in a training run train_step is called for agent i exactly when a
\* store_experience for agent i has just left more than the warm-up fill in
\* its buffer, and as the very next call; a buffer never gets shorter, so an
\* agent past the warm-up never warms up again; and no train_step the
\* orchestrator calls returns None without training.
C22_TrainsExactlyPastWarmUp ==
    [][/\ \A i \in AgentIds :
              /\ (last_op = <<"store", i>> /\ Len(agents[i].memory) > WarmUpFill)
                     => (last_op'[1] \in TrainLabels /\ last_op'[2] = i)
              /\ (last_op'[1] \in TrainLabels /\ last_op'[2] = i)
                     => (last_op = <<"store", i>> /\ Len(agents[i].memory) > WarmUpFill)
              /\ Len(agents'[i].memory) >= Len(agents[i].memory)
              /\ ~WarmingUp(agents[i]) => ~WarmingUp(agents'[i])
       /\ last_op'[1] # "train_noop"
       /\ (last_op'[1] \in TrainLabels) => (ret' # None /\ tm.training)]_vars

\* An agent whose buffer is full, an older transition evicted by its last
\* push, has just been trained again: past the warm-up it stays.
C22_Witness ==
    \E i \in AgentIds :
        /\ last_op = <<"train", i>>
        /\ Len(agents[i].memory) = capacity
        /\ agents[i].step_count >= 2
        /\ ret.kind = "value"

\* C23: len(loss_history) = step_count after every operation; a train_step
\* that trains adds one to step_count and appends one loss, the losses
\* before it kept as they were; every other operation but load leaves both
\* as they are.  load assigns both from the file, and they are equal again
\* when the file is one save wrote.
C23_OneLossPerStep ==
    /\ [](Len(agents[Self].loss_history) = agents[Self].step_count)
    /\ [][LET a == agents[Self]
              b == agents'[Self]
          IN  IF last_op'[1] \in {"train", "train_sync"}
              THEN /\ b.step_count = a.step_count + 1
                   /\ Len(b.loss_history) = Len(a.loss_history) + 1
                   /\ SubSeq(b.loss_history, 1, Len(a.loss_history)) = a.loss_history
              ELSE (last_op'[1] # "load") =>
                       /\ b.step_count = a.step_count
                       /\ b.loss_history = a.loss_history]_vars

\* An agent that has saved nothing, and so loaded nothing, has trained more
\* than once.
C23_Witness ==
    /\ last_op[1] \in {"train", "train_sync"}
    /\ disk = NoFile
    /\ agents[Self].step_count >= 2
    /\ Len(agents[Self].loss_history) = agents[Self].step_count

====
